---- MODULE Spec2Model ----
(***************************************************************************)
(* A model of cluster.py: genomic positions, barcoding clusters, the table *)
(* of clusters keyed by barcode string, the extraction of the barcodes     *)
(* from a read name, and the two pipeline functions get_clusters and       *)
(* write_clusters_to_file.                                                 *)
(*                                                                         *)
(* A read name is a sequence of one-character strings, so that the pattern *)
(* can be matched character by character; barcodes, keys, rendered         *)
(* positions and output lines are strings.                                 *)
(***************************************************************************)
EXTENDS Integers, Sequences, FiniteSets, TLC

VARIABLES
    num_barcodes,   \* get_clusters: the num_barcodes argument
    stream,         \* get_clusters: the records f.fetch(until_eof = True) yields
    pc,             \* the run: "Init", "Streaming", "Finalizing", "Done", "Error"
    idx,            \* get_clusters: number of records added to the table so far
    source_open,    \* get_clusters: the AlignmentFile is open
    sink_open,      \* write_clusters_to_file: the output file is open
    outfile,        \* write_clusters_to_file: the strings written, in order
    error,          \* the exception that ended the run or the last call, or ""
    clusters,       \* Clusters._clusters: the entries, in the dict's slot order
    heap,           \* the Cluster objects: heap[id] is Cluster._positions of object id
    gen,            \* Clusters.to_strings: the generator and its dict iterator
    lines,          \* the strings the generator has yielded to its consumer
    last,           \* the last call made on the table and what it returned
    handed,         \* per key, the cluster get_cluster last returned (0: none)
    added,          \* per cluster object, the (chromosome, coordinate) pairs added
    snap,           \* the lines the table rendered to when to_strings was called
    dirty,          \* the table was changed after to_strings was called
    ncalls,         \* the number of calls made on the table
    name,           \* the read name handed to pattern.search
    match           \* what pattern.search returned for name

vars == <<num_barcodes, stream, pc, idx, source_open, sink_open, outfile, error,
          clusters, heap, gen, lines, last, handed, added, snap, dirty, ncalls,
          name, match>>

pipeVars == <<stream, pc, idx, source_open, sink_open, outfile>>
tableVars == <<last, handed, added, snap, dirty, ncalls>>
extractVars == <<name, match>>

-----------------------------------------------------------------------------
(* Bounds of the model.                                                    *)

MaxBarcodes == 2      \* num_barcodes ranges over 1..MaxBarcodes
MaxNameTokens == 4    \* a read name is built from at most this many tokens
MaxRecords == 3       \* records in the alignment stream
MaxClusters == 3      \* Cluster objects created on one table
MaxAdds == 3          \* add_position calls made on one Cluster on its own
MaxCalls == 5         \* calls made on one table

-----------------------------------------------------------------------------
(* Strings.                                                                *)

\* The value None of Python; no reference sequence has this name.
None == "<None>"

\* str(seq of one-character strings)
RECURSIVE Str(_)
Str(s) == IF s = <<>> THEN "" ELSE Head(s) \o Str(Tail(s))

\* sep.join(strs)
RECURSIVE JoinNoSep(_, _)
JoinNoSep(sep, strs) ==
    IF strs = <<>> THEN "" ELSE strs[1] \o JoinNoSep(sep, Tail(strs))

RECURSIVE Join(_, _)
Join(sep, strs) ==
    IF strs = <<>> THEN ""
    ELSE IF Len(strs) = 1 THEN strs[1]
    ELSE strs[1] \o sep \o Join(sep, Tail(strs))

\* \w of a Python 2 pattern compiled without flags: [a-zA-Z0-9_]
WordChars ==
    {"a","b","c","d","e","f","g","h","i","j","k","l","m",
     "n","o","p","q","r","s","t","u","v","w","x","y","z",
     "A","B","C","D","E","F","G","H","I","J","K","L","M",
     "N","O","P","Q","R","S","T","U","V","W","X","Y","Z",
     "0","1","2","3","4","5","6","7","8","9","_"}

-----------------------------------------------------------------------------
(* pattern = re.compile('::' + num_barcodes * '\[(\w+)\]'); pattern.search  *)

NoMatch == [matched |-> FALSE, groups |-> <<>>]

\* The end of the greedy \w+ run starting at j: the first index >= j that
\* holds no word character (Len(nm) + 1 when the run reaches the end).
RECURSIVE WordRunEnd(_, _)
WordRunEnd(nm, j) ==
    IF j <= Len(nm) /\ nm[j] \in WordChars THEN WordRunEnd(nm, j + 1) ELSE j

\* n times \[(\w+)\] matched at index j.  \w+ is greedy; giving characters
\* back never helps, since what follows the shortened run is a word
\* character and the pattern wants "]".
RECURSIVE MatchGroups(_, _, _)
MatchGroups(nm, j, n) ==
    IF n = 0 THEN [matched |-> TRUE, groups |-> <<>>]
    ELSE IF j <= Len(nm) /\ nm[j] = "["
    THEN LET e == WordRunEnd(nm, j + 1)
         IN  IF e > j + 1 /\ e <= Len(nm) /\ nm[e] = "]"
             THEN LET rest == MatchGroups(nm, e + 1, n - 1)
                  IN  IF rest.matched
                      THEN [matched |-> TRUE,
                            groups |-> <<Str(SubSeq(nm, j + 1, e - 1))>> \o rest.groups]
                      ELSE NoMatch
             ELSE NoMatch
    ELSE NoMatch

\* The whole pattern matched at index i.
MatchAt(nm, i, n) ==
    IF i + 1 <= Len(nm) /\ nm[i] = ":" /\ nm[i + 1] = ":"
    THEN MatchGroups(nm, i + 2, n)
    ELSE NoMatch

\* pattern.search(name): the match at the leftmost index that has one.
RECURSIVE SearchFrom(_, _, _)
SearchFrom(nm, i, n) ==
    IF i > Len(nm) THEN NoMatch
    ELSE IF MatchAt(nm, i, n).matched THEN MatchAt(nm, i, n)
    ELSE SearchFrom(nm, i + 1, n)

SearchAnchored(nm, n) == MatchAt(nm, 1, n)

SearchRightmost(nm, n) ==
    LET hits == {i \in 1..Len(nm) : MatchAt(nm, i, n).matched}
    IN  IF hits = {} THEN NoMatch
        ELSE MatchAt(nm, CHOOSE i \in hits : \A h \in hits : h <= i, n)

Search(nm, n) == SearchFrom(nm, 1, n)

\* barcodes = ".".join(match.groups())
Barcodes(m) == Join(".", m.groups)

-----------------------------------------------------------------------------
(* class Position                                                          *)

Position(chromosome, coordinate) ==
    [chromosome |-> chromosome, coordinate |-> coordinate]

Position_eq_chromosome_only(a, b) == a.chromosome = b.chromosome

\* Position.__eq__ (other is always a Position here)
Position_eq(a, b) ==
    a.chromosome = b.chromosome /\ a.coordinate = b.coordinate

\* Position.__hash__: hash((chromosome, coordinate)).  The builtin tuple hash
\* is a function of the two fields and nothing else; this stand-in is one
\* too, and lets unequal positions collide.
Position_hash(p) ==
    ((IF p.chromosome = None THEN 0 ELSE Len(p.chromosome)) + p.coordinate) % 4

\* The value or the exception of a call.
Returns(v) == [exc |-> "", val |-> v]
Raises(e) == [exc |-> e, val |-> ""]

\* Position.to_string: None + ":" raises TypeError.
Position_to_string(p) ==
    IF p.chromosome = None THEN Raises("TypeError")
    ELSE Returns(p.chromosome \o ":" \o ToString(p.coordinate))

-----------------------------------------------------------------------------
(* class Cluster: _positions is a set of Position.  The set is a hash       *)
(* table; it is modelled as the sequence of its elements in the order the  *)
(* table is iterated: by hash slot, and by insertion within a slot.        *)

Cluster_new == <<>>

Set_contains(s, p) ==
    \E i \in 1..Len(s) :
        Position_hash(s[i]) = Position_hash(p) /\ Position_eq(s[i], p)

Set_add(s, p) ==
    IF Set_contains(s, p) THEN s
    ELSE LET k == Cardinality({i \in 1..Len(s) :
                                 Position_hash(s[i]) <= Position_hash(p)})
         IN  SubSeq(s, 1, k) \o <<p>> \o SubSeq(s, k + 1, Len(s))

Cluster_add_position(s, p) == Set_add(s, p)

Cluster_size(s) == Len(s)

\* Cluster.to_string: the first exception a position raises, or the join.
Cluster_to_string(s) ==
    LET position_strings == [i \in 1..Len(s) |-> Position_to_string(s[i])]
        bad == {i \in 1..Len(s) : position_strings[i].exc # ""}
    IN  IF bad # {}
        THEN Raises(position_strings[CHOOSE i \in bad : \A b \in bad : i <= b].exc)
        ELSE Returns(Join("\t", [i \in 1..Len(s) |-> position_strings[i].val]))

-----------------------------------------------------------------------------
(* class Clusters: _clusters is a dict from barcodes to Cluster.  The dict  *)
(* is modelled as the sequence of its entries in slot order; where a new   *)
(* key lands among the others depends on string hashes and is an input.    *)

Dict_has(d, k) == \E i \in 1..Len(d) : d[i].barcodes = k

Dict_index(d, k) == CHOOSE i \in 1..Len(d) : d[i].barcodes = k

Dict_get(d, k) == d[Dict_index(d, k)].cluster

Dict_keys(d) == {d[i].barcodes : i \in 1..Len(d)}

Dict_insert(d, j, e) == SubSeq(d, 1, j - 1) \o <<e>> \o SubSeq(d, j, Len(d))

Dict_delete(d, k) ==
    SubSeq(d, 1, Dict_index(d, k) - 1) \o SubSeq(d, Dict_index(d, k) + 1, Len(d))

\* Clusters.get_cluster without the membership test.
Clusters_get_cluster_always_new(cl, hp, barcodes, j) ==
    [clusters |-> IF \E i \in 1..Len(cl) : cl[i].barcodes = barcodes
                  THEN [i \in 1..Len(cl) |->
                          IF cl[i].barcodes = barcodes
                          THEN [barcodes |-> barcodes, cluster |-> Len(hp) + 1]
                          ELSE cl[i]]
                  ELSE SubSeq(cl, 1, j - 1)
                       \o <<[barcodes |-> barcodes, cluster |-> Len(hp) + 1]>>
                       \o SubSeq(cl, j, Len(cl)),
     heap |-> Append(hp, <<>>),
     ret |-> Len(hp) + 1]

\* Clusters.get_cluster; j is the place the new entry takes in slot order.
Clusters_get_cluster(cl, hp, barcodes, j) ==
    IF ~Dict_has(cl, barcodes)
    THEN [clusters |-> Dict_insert(cl, j, [barcodes |-> barcodes,
                                           cluster |-> Len(hp) + 1]),
          heap |-> Append(hp, Cluster_new),
          ret |-> Len(hp) + 1]
    ELSE [clusters |-> cl, heap |-> hp, ret |-> Dict_get(cl, barcodes)]

\* Clusters.add_position
Clusters_add_position(cl, hp, barcodes, position, j) ==
    LET g == Clusters_get_cluster(cl, hp, barcodes, j)
    IN  [clusters |-> g.clusters,
         heap |-> [g.heap EXCEPT ![g.ret] = Cluster_add_position(@, position)]]

\* dict.pop(barcodes, None) in place of del.
Clusters_remove_cluster_quiet(cl, barcodes) ==
    [exc |-> "",
     clusters |-> SelectSeq(cl, LAMBDA e : e.barcodes # barcodes)]

\* Clusters.remove_cluster: del raises KeyError on a missing key.
Clusters_remove_cluster(cl, barcodes) ==
    IF Dict_has(cl, barcodes)
    THEN [exc |-> "", clusters |-> Dict_delete(cl, barcodes)]
    ELSE [exc |-> "KeyError", clusters |-> cl]

-----------------------------------------------------------------------------
(* Clusters.to_strings is a generator function: calling it runs none of its *)
(* body.  The first next() calls iteritems(); every next() of the dict      *)
(* iterator raises RuntimeError when the dict's size differs from the size  *)
(* it had at iteritems(), and otherwise takes the next entry in slot order. *)
(* di_pos counts the entries in the slots behind the iterator; di_gap says  *)
(* that the slot just behind the iterator was freed by a deletion.          *)

\* ended is the exception the generator's body ended with.
NoGen == [state |-> "none", di_used |-> 0, di_pos |-> 0, di_gap |-> FALSE,
          ended |-> ""]
NewGen == [NoGen EXCEPT !.state = "created"]
Finished(g, exc) == [g EXCEPT !.state = "finished", !.ended = exc]

\* The dict iterator as iteritems() creates it.
Gen_start(cl, g) ==
    IF g.state = "created"
    THEN [state |-> "running", di_used |-> Len(cl), di_pos |-> 0, di_gap |-> FALSE,
          ended |-> ""]
    ELSE g

Line(barcodes, cluster_string) == barcodes \o "\t" \o cluster_string

\* to_strings yielding the clusters without their barcodes.
Gen_next_without_barcodes(cl, hp, g0) ==
    LET g == IF g0.state = "created"
             THEN [state |-> "running", di_used |-> Len(cl), di_pos |-> 0,
                   di_gap |-> FALSE, ended |-> ""]
             ELSE g0
    IN  IF g.state # "running"
        THEN [gen |-> g, exc |-> "StopIteration", val |-> ""]
        ELSE IF g.di_used # Len(cl)
        THEN [gen |-> [g EXCEPT !.state = "finished", !.ended = "RuntimeError"],
              exc |-> "RuntimeError", val |-> ""]
        ELSE IF g.di_pos >= Len(cl)
        THEN [gen |-> [g EXCEPT !.state = "finished", !.ended = "StopIteration"],
              exc |-> "StopIteration", val |-> ""]
        ELSE LET e == cl[g.di_pos + 1]
                 s == Cluster_to_string(hp[e.cluster])
             IN  IF s.exc # ""
                 THEN [gen |-> [g EXCEPT !.state = "finished", !.ended = s.exc],
                       exc |-> s.exc, val |-> ""]
                 ELSE [gen |-> [g EXCEPT !.di_pos = @ + 1, !.di_gap = FALSE],
                       exc |-> "",
                       val |-> s.val]

\* One next() of the generator: the generator afterwards, the exception
\* raised ("" when a line is yielded) and the line.
Gen_next(cl, hp, g0) ==
    LET g == Gen_start(cl, g0)
    IN  IF g.state # "running"
        THEN [gen |-> g, exc |-> "StopIteration", val |-> ""]
        ELSE IF g.di_used # Len(cl)
        THEN [gen |-> Finished(g, "RuntimeError"), exc |-> "RuntimeError", val |-> ""]
        ELSE IF g.di_pos >= Len(cl)
        THEN [gen |-> Finished(g, "StopIteration"), exc |-> "StopIteration", val |-> ""]
        ELSE LET e == cl[g.di_pos + 1]
                 s == Cluster_to_string(hp[e.cluster])
             IN  IF s.exc # ""
                 THEN [gen |-> Finished(g, s.exc), exc |-> s.exc, val |-> ""]
                 ELSE [gen |-> [g EXCEPT !.di_pos = @ + 1, !.di_gap = FALSE],
                       exc |-> "",
                       val |-> Line(e.barcodes, s.val)]

\* The iterator after an entry was put at place j; behind says whether the
\* slot taken lies behind the iterator.
Gen_after_insert(g, j, behind) ==
    IF g.state = "running" /\ behind
    THEN [g EXCEPT !.di_pos = @ + 1] ELSE g

\* Whether a new entry at place j can lie behind the iterator.
CanBeBehind(g, j, behind) ==
    IF g.state # "running" THEN ~behind
    ELSE IF j - 1 < g.di_pos THEN behind
    ELSE IF j - 1 = g.di_pos THEN (behind => g.di_gap)
    ELSE ~behind

\* The iterator after the entry at place r was deleted.
Gen_after_delete(g, r) ==
    IF g.state = "running" /\ r <= g.di_pos
    THEN [g EXCEPT !.di_pos = @ - 1, !.di_gap = (@ \/ r = g.di_pos)]
    ELSE g

-----------------------------------------------------------------------------
(* The inputs of a run.                                                    *)

NameAABB1 == <<"r","1",":",":","[","A","A","]","[","B","B","]">>
NameAABB2 == <<"r","2",":",":","[","A","A","]","[","B","B","]">>
NameCCDD == <<"r","3",":",":","[","C","C","]","[","D","D","]">>
NameAABB == <<"r","4",":",":","[","A","]","[","A","B","B","]">>
NameBare == <<"r","e","a","d","A">>

Record(reference_name, reference_start, query_name) ==
    [reference_name |-> reference_name,
     reference_start |-> reference_start,
     query_name |-> query_name]

\* The records a stream is made of; an unmapped read has no reference name
\* and start -1.
Records ==
    {Record("chr1", 100, NameAABB1),
     Record("chr1", 100, NameAABB2),
     Record("chr2", 50, NameCCDD),
     Record("chr2", 100, NameAABB),
     Record(None, -1, NameAABB1),
     Record("chr1", 50, NameBare)}

Streams == UNION {[1..n -> Records] : n \in 0..MaxRecords}

NoCall == [op |-> "", key |-> "", ret |-> 0, exc |-> ""]

Keys == {"AA.BB", "CC.DD"}

-----------------------------------------------------------------------------
(* The run: get_clusters(bamfile, num_barcodes), then                       *)
(* write_clusters_to_file(clusters, outfile).                               *)

Init ==
    /\ num_barcodes \in 1..MaxBarcodes
    /\ stream \in Streams
    /\ pc = "Init"
    /\ idx = 0
    /\ source_open = FALSE
    /\ sink_open = FALSE
    /\ outfile = <<>>
    /\ error = ""
    /\ clusters = <<>>
    /\ heap = <<>>
    /\ gen = NoGen
    /\ lines = <<>>
    /\ last = NoCall
    /\ handed = [k \in Keys |-> 0]
    /\ added = <<>>
    /\ snap = {}
    /\ dirty = FALSE
    /\ ncalls = 0
    /\ name = <<>>
    /\ match = NoMatch

\* with pysam.AlignmentFile(bamfile, "rb") as f: the file opens.
OpenSource ==
    /\ pc = "Init"
    /\ pc' = "Streaming"
    /\ source_open' = TRUE
    /\ UNCHANGED <<num_barcodes, stream, idx, sink_open, outfile, error, clusters,
                   heap, gen, lines, tableVars, extractVars>>

\* pysam.AlignmentFile raises: the file is missing or no alignment file.
OpenSourceFails ==
    /\ pc = "Init"
    /\ pc' = "Error"
    /\ error' = "IOError"
    /\ UNCHANGED <<num_barcodes, stream, idx, source_open, sink_open, outfile,
                   clusters, heap, gen, lines, tableVars, extractVars>>

\* The loop body with the malformed record skipped instead of raising.
FetchReadSkipsMalformed ==
    /\ pc = "Streaming"
    /\ idx < Len(stream)
    /\ LET read == stream[idx + 1]
           position == Position(read.reference_name, read.reference_start)
           m == Search(read.query_name, num_barcodes)
       IN  /\ name' = read.query_name
           /\ match' = m
           /\ idx' = idx + 1
           /\ IF ~m.matched
              THEN UNCHANGED <<clusters, heap>>
              ELSE \E j \in 1..(Len(clusters) + 1) :
                     LET t == Clusters_add_position(clusters, heap, Barcodes(m),
                                                    position, j)
                     IN  clusters' = t.clusters /\ heap' = t.heap
    /\ UNCHANGED <<num_barcodes, stream, pc, error, source_open, sink_open, outfile,
                   gen, lines, tableVars>>

\* The loop body outside a with statement: the exception leaves the file open.
FetchReadLeavesOpen ==
    /\ pc = "Streaming"
    /\ idx < Len(stream)
    /\ LET read == stream[idx + 1]
           position == Position(read.reference_name, read.reference_start)
           m == Search(read.query_name, num_barcodes)
       IN  /\ name' = read.query_name
           /\ match' = m
           /\ IF ~m.matched
              THEN /\ pc' = "Error"
                   /\ error' = "AttributeError"
                   /\ UNCHANGED <<idx, clusters, heap>>
              ELSE /\ \E j \in 1..(Len(clusters) + 1) :
                        LET t == Clusters_add_position(clusters, heap, Barcodes(m),
                                                       position, j)
                        IN  clusters' = t.clusters /\ heap' = t.heap
                   /\ idx' = idx + 1
                   /\ UNCHANGED <<pc, error>>
    /\ UNCHANGED <<num_barcodes, stream, source_open, sink_open, outfile,
                   gen, lines, tableVars>>

\* One turn of the loop over f.fetch(until_eof = True).  On a name the
\* pattern does not match, search returns None and match.groups() raises
\* AttributeError, which leaves the with statement (closing the file) and
\* get_clusters.
FetchRead ==
    /\ pc = "Streaming"
    /\ idx < Len(stream)
    /\ LET read == stream[idx + 1]
           position == Position(read.reference_name, read.reference_start)
           m == Search(read.query_name, num_barcodes)
       IN  /\ name' = read.query_name
           /\ match' = m
           /\ IF ~m.matched
              THEN /\ pc' = "Error"
                   /\ error' = "AttributeError"
                   /\ source_open' = FALSE
                   /\ UNCHANGED <<idx, clusters, heap>>
              ELSE /\ \E j \in 1..(Len(clusters) + 1) :
                        LET t == Clusters_add_position(clusters, heap, Barcodes(m),
                                                       position, j)
                        IN  clusters' = t.clusters /\ heap' = t.heap
                   /\ idx' = idx + 1
                   /\ UNCHANGED <<pc, error, source_open>>
    /\ UNCHANGED <<num_barcodes, stream, sink_open, outfile, gen, lines, tableVars>>

\* return clusters placed inside the loop body.
ReturnClustersEarly ==
    /\ pc = "Streaming"
    /\ idx >= 1 \/ idx = Len(stream)
    /\ pc' = "Finalizing"
    /\ source_open' = FALSE
    /\ UNCHANGED <<num_barcodes, stream, idx, sink_open, outfile, error, clusters,
                   heap, gen, lines, tableVars, extractVars>>

\* The stream is exhausted: the with statement closes the file and
\* get_clusters returns the table.
ReturnClusters ==
    /\ pc = "Streaming"
    /\ idx = Len(stream)
    /\ pc' = "Finalizing"
    /\ source_open' = FALSE
    /\ UNCHANGED <<num_barcodes, stream, idx, sink_open, outfile, error, clusters,
                   heap, gen, lines, tableVars, extractVars>>

\* The caller hands the table get_clusters returned to
\* write_clusters_to_file.
DriverCallsWrite == pc = "Finalizing" /\ ~sink_open /\ gen.state = "none"

\* with open(outfile, 'w') as f, and the for statement calls to_strings().
OpenSink ==
    /\ DriverCallsWrite
    /\ sink_open' = TRUE
    /\ gen' = NewGen
    /\ UNCHANGED <<num_barcodes, stream, pc, idx, source_open, outfile, error,
                   clusters, heap, lines, tableVars, extractVars>>

\* open(outfile, 'w') raises.
OpenSinkFails ==
    /\ DriverCallsWrite
    /\ pc' = "Error"
    /\ error' = "IOError"
    /\ UNCHANGED <<num_barcodes, stream, idx, source_open, sink_open, outfile,
                   clusters, heap, gen, lines, tableVars, extractVars>>

\* One turn of the loop of write_clusters_to_file: the generator yields a
\* line, which is written with its newline; or it is exhausted and the with
\* statement closes the file; or rendering raises, which closes the file too.
WriteLine ==
    /\ pc = "Finalizing"
    /\ sink_open
    /\ LET r == Gen_next(clusters, heap, gen)
       IN  /\ gen' = r.gen
           /\ IF r.exc = ""
              THEN /\ outfile' = outfile \o <<r.val, "\n">>
                   /\ lines' = Append(lines, r.val)
                   /\ UNCHANGED <<pc, error, sink_open>>
              ELSE IF r.exc = "StopIteration"
              THEN /\ pc' = "Done"
                   /\ sink_open' = FALSE
                   /\ UNCHANGED <<outfile, lines, error>>
              ELSE /\ pc' = "Error"
                   /\ error' = r.exc
                   /\ sink_open' = FALSE
                   /\ UNCHANGED <<outfile, lines>>
    /\ UNCHANGED <<num_barcodes, stream, idx, source_open, clusters, heap,
                   tableVars, extractVars>>

\* f.write raises: the with statement closes the file.
WriteFails ==
    /\ pc = "Finalizing"
    /\ sink_open
    /\ pc' = "Error"
    /\ error' = "IOError"
    /\ sink_open' = FALSE
    /\ UNCHANGED <<num_barcodes, stream, idx, source_open, outfile, clusters, heap,
                   gen, lines, tableVars, extractVars>>

Next ==
    \/ OpenSource
    \/ OpenSourceFails
    \/ FetchRead
    \/ ReturnClusters
    \/ OpenSink
    \/ OpenSinkFails
    \/ WriteLine
    \/ WriteFails

Spec == Init /\ [][Next]_vars

-----------------------------------------------------------------------------
(* Barcode extraction on its own: lines 107, 114 and 115 of get_clusters    *)
(* applied to one name.                                                    *)

\* The pieces read names are built from: single characters, the separator
\* and whole bracketed groups.
Tokens ==
    {<<":">>, <<"[">>, <<"]">>, <<"A">>, <<"-">>,
     <<":", ":">>, <<"[", "A", "]">>, <<"[", "B", "_", "]">>}

RECURSIVE Flatten(_)
Flatten(ts) == IF ts = <<>> THEN <<>> ELSE Head(ts) \o Flatten(Tail(ts))

Names == UNION {{Flatten(ts) : ts \in [1..n -> Tokens]} : n \in 0..MaxNameTokens}

InitExtract ==
    /\ num_barcodes \in 1..MaxBarcodes
    /\ name \in Names
    /\ match = NoMatch
    /\ pc = "Init"
    /\ error = ""
    /\ last = NoCall
    /\ stream = <<>>
    /\ idx = 0
    /\ source_open = FALSE
    /\ sink_open = FALSE
    /\ outfile = <<>>
    /\ clusters = <<>>
    /\ heap = <<>>
    /\ gen = NoGen
    /\ lines = <<>>
    /\ handed = [k \in Keys |-> 0]
    /\ added = <<>>
    /\ snap = {}
    /\ dirty = FALSE
    /\ ncalls = 0

\* match = pattern.search(name); barcodes = ".".join(match.groups()).
\* last.key holds barcodes.
ExtractBarcodes ==
    /\ pc = "Init"
    /\ LET m == Search(name, num_barcodes)
       IN  /\ match' = m
           /\ IF m.matched
              THEN /\ pc' = "Done"
                   /\ last' = [op |-> "extract", key |-> Barcodes(m), ret |-> 0,
                               exc |-> ""]
                   /\ UNCHANGED error
              ELSE /\ pc' = "Error"
                   /\ error' = "AttributeError"
                   /\ last' = [op |-> "extract", key |-> "", ret |-> 0,
                               exc |-> "AttributeError"]
    /\ UNCHANGED <<num_barcodes, name, stream, idx, source_open, sink_open, outfile,
                   clusters, heap, gen, lines, handed, added, snap, dirty, ncalls>>

NextExtract == ExtractBarcodes

SpecExtract == InitExtract /\ [][NextExtract]_vars

-----------------------------------------------------------------------------
(* What the pattern means, stated on the name and not on the search.       *)

\* All the ways n groups [w], w a non-empty run of word characters, can be
\* read from index s on: the set of the tuples of the n words.
RECURSIVE GroupParses(_, _, _)
GroupParses(nm, s, n) ==
    IF n = 0 THEN {<<>>}
    ELSE UNION {{<<Str(SubSeq(nm, s + 1, e - 1))>> \o rest :
                    rest \in GroupParses(nm, e + 1, n - 1)} :
                e \in {e \in (s + 2)..Len(nm) :
                         /\ nm[s] = "["
                         /\ nm[e] = "]"
                         /\ \A t \in (s + 1)..(e - 1) : nm[t] \in WordChars}}

\* The indices at which "::" followed by n groups occurs.
Occurrences(nm, n) ==
    {i \in 1..(Len(nm) - 1) :
        nm[i] = ":" /\ nm[i + 1] = ":" /\ GroupParses(nm, i + 2, n) # {}}

Contains(nm, n) == Occurrences(nm, n) # {}

Leftmost(S) == CHOOSE i \in S : \A j \in S : i <= j

\* The words of the leftmost occurrence.
GroupsOf(nm, n) ==
    CHOOSE g \in GroupParses(nm, Leftmost(Occurrences(nm, n)) + 2, n) : TRUE

\* The words with a period between neighbours.
RECURSIVE DotJoined(_)
DotJoined(g) ==
    IF g = <<>> THEN ""
    ELSE IF Len(g) = 1 THEN g[1]
    ELSE DotJoined(SubSeq(g, 1, Len(g) - 1)) \o "." \o g[Len(g)]

\* C3: extraction succeeds exactly when the name contains "::" followed by
\* N groups of word characters; the key is then the words of the leftmost
\* occurrence joined with ".", whatever follows the N-th group; otherwise
\* extraction fails.
ExtractionFollowsPattern ==
    pc # "Init" =>
        /\ (pc = "Done") <=> Contains(name, num_barcodes)
        /\ (pc = "Error") <=> ~Contains(name, num_barcodes)
        /\ match.matched <=> Contains(name, num_barcodes)
        /\ Contains(name, num_barcodes) =>
              /\ GroupParses(name, Leftmost(Occurrences(name, num_barcodes)) + 2,
                             num_barcodes) = {match.groups}
              /\ last.key = DotJoined(GroupsOf(name, num_barcodes))
        /\ ~Contains(name, num_barcodes) => last.exc = "AttributeError"

\* A name with two occurrences, such as ::[A]::[B_] with N = 1: the key is
\* taken from the first.
ExtractionWitness ==
    /\ pc = "Done"
    /\ num_barcodes = 1
    /\ Cardinality(Occurrences(name, num_barcodes)) = 2
    /\ Len(name) = 11
    /\ last.key = "A"

-----------------------------------------------------------------------------
(* Properties of the run.                                                  *)

AllNamesMatch == \A i \in 1..Len(stream) : Contains(stream[i].query_name, num_barcodes)

\* The barcode combinations of the stream, and the positions of the records
\* that carry a combination.
Combinations == {GroupsOf(stream[i].query_name, num_barcodes) : i \in 1..Len(stream)}

PositionsOf(t) ==
    {<<stream[i].reference_name, stream[i].reference_start>> :
        i \in {i \in 1..Len(stream) : GroupsOf(stream[i].query_name, num_barcodes) = t}}

StreamConsumed == pc \in {"Finalizing", "Done", "Error"} /\ idx = Len(stream)

\* C1: once a stream whose names all match has been consumed, the table has
\* exactly one entry per barcode combination of the stream, no two entries
\* share a key, and the cluster of a combination holds each position of the
\* records carrying it exactly once and nothing else.
TableGroupsStream ==
    (StreamConsumed /\ AllNamesMatch) =>
        /\ Len(clusters) = Cardinality(Combinations)
        /\ \A i, j \in 1..Len(clusters) :
              clusters[i].barcodes = clusters[j].barcodes => i = j
        /\ \A t \in Combinations :
              \E i \in 1..Len(clusters) :
                 LET s == heap[clusters[i].cluster]
                 IN  /\ clusters[i].barcodes = DotJoined(t)
                     /\ {<<s[k].chromosome, s[k].coordinate>> : k \in 1..Len(s)}
                           = PositionsOf(t)
                     /\ Len(s) = Cardinality(PositionsOf(t))

\* Three records, two of them with the same combination and the same
\* position, end as two clusters of one position each.
TableGroupsStreamWitness ==
    /\ pc = "Done"
    /\ Len(stream) = 3
    /\ Len(clusters) = 2
    /\ \A i \in 1..Len(clusters) : Len(heap[clusters[i].cluster]) = 1

\* C2: a record whose name does not contain the pattern ends the run in the
\* error state at that record, with the table as it was; and nothing is
\* processed once the run is in the error state.
MalformedNameIsTerminal ==
    [][/\ (/\ pc = "Streaming"
           /\ idx < Len(stream)
           /\ ~Contains(stream[idx + 1].query_name, num_barcodes))
          => (pc' = "Error" /\ idx' = idx /\ clusters' = clusters /\ heap' = heap)
       /\ pc = "Error"
          => (pc' = "Error" /\ idx' = idx /\ clusters' = clusters /\ heap' = heap)
      ]_vars

\* The run failed on a malformed name that had a record before it and
\* records after it.
MalformedNameWitness ==
    /\ pc = "Error"
    /\ error = "AttributeError"
    /\ idx >= 1
    /\ idx + 1 < Len(stream)
    /\ ~Contains(stream[idx + 1].query_name, num_barcodes)

\* C8: while the sink is open or holds anything, every record of the source
\* has been read and inserted and the source is closed; a run that failed
\* while streaming has written nothing.
OutputOnlyAfterStream ==
    /\ (sink_open \/ outfile # <<>>) =>
          (idx = Len(stream) /\ ~source_open /\ pc \notin {"Init", "Streaming"})
    /\ (pc = "Error" /\ error = "AttributeError") => (outfile = <<>> /\ ~sink_open)

\* Lines were written for a stream of several records.
OutputOnlyAfterStreamWitness ==
    /\ outfile # <<>>
    /\ sink_open
    /\ Len(stream) >= 2

\* C9: no terminal state is reached with the source or the sink open.
ResourcesReleased ==
    pc \in {"Done", "Error"} => (~source_open /\ ~sink_open)

\* A malformed name ended the run in the middle of the stream.
ResourcesReleasedWitness ==
    /\ pc = "Error"
    /\ error = "AttributeError"
    /\ idx >= 1
    /\ ~source_open

\* The orders a set can be listed in.
Orders(S) ==
    {f \in [1..Cardinality(S) -> S] : \A a, b \in 1..Cardinality(S) : f[a] = f[b] => a = b}

\* The lines a combination may be written as: the key, then its positions
\* as chromosome:coordinate in some order, tab-separated.
LinesFor(t) ==
    {DotJoined(t) \o "\t"
        \o Join("\t", [k \in 1..Cardinality(PositionsOf(t)) |->
                          f[k][1] \o ":" \o ToString(f[k][2])]) :
     f \in Orders(PositionsOf(t))}

\* C10: a run over a stream whose names all match, unmapped records
\* included, enters no error state of its own (an I/O failure of the source
\* or the sink apart) and ends having written one newline-terminated line
\* per barcode key, with every position of the key as chromosome:coordinate.
WellFormedStreamCompletes ==
    AllNamesMatch =>
        /\ pc = "Error" => error = "IOError"
        /\ pc = "Done" =>
              /\ Len(outfile) = 2 * Cardinality(Combinations)
              /\ \A k \in 1..Len(outfile) : k % 2 = 0 => outfile[k] = "\n"
              /\ \A t \in Combinations :
                    \E k \in 1..Len(outfile) : k % 2 = 1 /\ outfile[k] \in LinesFor(t)

-----------------------------------------------------------------------------
(* One Cluster under add_position and size calls.  added[1] is the log of   *)
(* the (chromosome, coordinate) pairs handed to add_position, in call       *)
(* order.                                                                   *)

Positions ==
    {Position("chr1", 100), Position("chr1", 104), Position("chr2", 100),
     Position(None, -1)}

Pair(p) == <<p.chromosome, p.coordinate>>

Range(f) == {f[i] : i \in DOMAIN f}

InitCluster ==
    /\ heap = <<Cluster_new>>
    /\ added = <<<<>>>>
    /\ last = NoCall
    /\ num_barcodes = 1
    /\ stream = <<>>
    /\ pc = "Init"
    /\ idx = 0
    /\ source_open = FALSE
    /\ sink_open = FALSE
    /\ outfile = <<>>
    /\ error = ""
    /\ clusters = <<>>
    /\ gen = NoGen
    /\ lines = <<>>
    /\ handed = [k \in Keys |-> 0]
    /\ snap = {}
    /\ dirty = FALSE
    /\ ncalls = 0
    /\ name = <<>>
    /\ match = NoMatch

\* cluster.add_position(position)
ClusterAddPosition ==
    /\ Len(added[1]) < MaxAdds
    /\ \E p \in Positions :
          /\ heap' = [heap EXCEPT ![1] = Cluster_add_position(@, p)]
          /\ added' = [added EXCEPT ![1] = Append(@, Pair(p))]
    /\ last' = [op |-> "add_position", key |-> "", ret |-> 0, exc |-> ""]
    /\ UNCHANGED <<num_barcodes, pipeVars, error, clusters, gen, lines, handed,
                   snap, dirty, ncalls, extractVars>>

\* cluster.size()
ClusterSize ==
    /\ last' = [op |-> "size", key |-> "", ret |-> Cluster_size(heap[1]), exc |-> ""]
    /\ UNCHANGED <<num_barcodes, pipeVars, error, clusters, heap, gen, lines, handed,
                   added, snap, dirty, ncalls, extractVars>>

NextCluster == ClusterAddPosition \/ ClusterSize

SpecCluster == InitCluster /\ [][NextCluster]_vars

\* C4: size() is the number of distinct (chromosome, coordinate) pairs among
\* the positions added, however often and in whatever order they were added.
SizeCountsDistinctPairs ==
    last.op = "size" => last.ret = Cardinality(Range(added[1]))

\* Three insertions of two distinct pairs.
SizeCountsDistinctPairsWitness ==
    /\ last.op = "size"
    /\ Len(added[1]) = 3
    /\ last.ret = 2

-----------------------------------------------------------------------------
(* One Clusters table under get_cluster, add_position, remove_cluster,      *)
(* to_strings and next() calls made in any order.                          *)

TablePositions == {Position("chr1", 100), Position(None, -1)}

\* What every entry of the table renders to: the key and the value or
\* exception of cluster.to_string().
Rendering(cl, hp) ==
    {[barcodes |-> cl[i].barcodes, string |-> Cluster_to_string(hp[cl[i].cluster])] :
        i \in 1..Len(cl)}

GenActive == gen.state \in {"created", "running"}

InitTable ==
    /\ clusters = <<>>
    /\ heap = <<>>
    /\ gen = NoGen
    /\ lines = <<>>
    /\ last = NoCall
    /\ handed = [k \in Keys |-> 0]
    /\ added = <<>>
    /\ snap = {}
    /\ dirty = FALSE
    /\ ncalls = 0
    /\ error = ""
    /\ num_barcodes = 2
    /\ stream = <<>>
    /\ pc = "Init"
    /\ idx = 0
    /\ source_open = FALSE
    /\ sink_open = FALSE
    /\ outfile = <<>>
    /\ name = <<>>
    /\ match = NoMatch

\* clusters.get_cluster(k)
GetCluster ==
    \E k \in Keys, j \in 1..(Len(clusters) + 1), behind \in BOOLEAN :
        /\ ncalls < MaxCalls
        /\ ncalls' = ncalls + 1
        /\ Dict_has(clusters, k) \/ Len(heap) < MaxClusters
        /\ IF Dict_has(clusters, k) THEN j = 1 /\ ~behind
                                    ELSE CanBeBehind(gen, j, behind)
        /\ LET g == Clusters_get_cluster(clusters, heap, k, j)
           IN  /\ clusters' = g.clusters
               /\ heap' = g.heap
               /\ last' = [op |-> "get_cluster", key |-> k, ret |-> g.ret, exc |-> ""]
               /\ handed' = [handed EXCEPT ![k] = g.ret]
               /\ added' = IF Len(g.heap) > Len(heap) THEN Append(added, <<>>) ELSE added
               /\ gen' = IF Len(g.clusters) > Len(clusters)
                         THEN Gen_after_insert(gen, j, behind) ELSE gen
               /\ dirty' = (dirty \/ (GenActive /\ g.clusters # clusters))
        /\ UNCHANGED <<num_barcodes, pipeVars, error, lines, snap, extractVars>>

\* clusters.add_position(k, p)
AddPosition ==
    \E k \in Keys, p \in TablePositions, j \in 1..(Len(clusters) + 1),
       behind \in BOOLEAN :
        /\ ncalls < MaxCalls
        /\ ncalls' = ncalls + 1
        /\ Dict_has(clusters, k) \/ Len(heap) < MaxClusters
        /\ IF Dict_has(clusters, k) THEN j = 1 /\ ~behind
                                    ELSE CanBeBehind(gen, j, behind)
        /\ LET t == Clusters_add_position(clusters, heap, k, p, j)
               c == Dict_get(t.clusters, k)
               log == IF Len(t.heap) > Len(heap) THEN Append(added, <<>>) ELSE added
           IN  /\ clusters' = t.clusters
               /\ heap' = t.heap
               /\ last' = [op |-> "add_position", key |-> k, ret |-> 0, exc |-> ""]
               /\ added' = [log EXCEPT ![c] = Append(@, Pair(p))]
               /\ gen' = IF Len(t.clusters) > Len(clusters)
                         THEN Gen_after_insert(gen, j, behind) ELSE gen
               /\ dirty' = (dirty \/ (GenActive /\ (t.clusters # clusters
                                                    \/ t.heap # heap)))
        /\ UNCHANGED <<num_barcodes, pipeVars, error, lines, handed, snap, extractVars>>

\* clusters.remove_cluster(k)
RemoveCluster ==
    \E k \in Keys :
        LET r == Clusters_remove_cluster(clusters, k)
        IN  /\ ncalls < MaxCalls
            /\ ncalls' = ncalls + 1
            /\ clusters' = r.clusters
            /\ last' = [op |-> "remove_cluster", key |-> k, ret |-> 0, exc |-> r.exc]
            /\ handed' = IF r.exc = "" THEN [handed EXCEPT ![k] = 0] ELSE handed
            /\ gen' = IF r.exc = "" THEN Gen_after_delete(gen, Dict_index(clusters, k))
                      ELSE gen
            /\ dirty' = (dirty \/ (GenActive /\ r.clusters # clusters))
            /\ UNCHANGED <<num_barcodes, pipeVars, error, heap, lines, added, snap,
                           extractVars>>

\* clusters.to_strings(): a new generator; none of its body runs.
ToStrings ==
    /\ ncalls < MaxCalls
    /\ ncalls' = ncalls + 1
    /\ gen' = NewGen
    /\ lines' = <<>>
    /\ snap' = Rendering(clusters, heap)
    /\ dirty' = FALSE
    /\ last' = [op |-> "to_strings", key |-> "", ret |-> 0, exc |-> ""]
    /\ UNCHANGED <<num_barcodes, pipeVars, error, clusters, heap, handed, added,
                   extractVars>>

\* next() on the generator.
GenNext ==
    /\ gen.state # "none"
    /\ ncalls < MaxCalls
    /\ ncalls' = ncalls + 1
    /\ LET r == Gen_next(clusters, heap, gen)
       IN  /\ gen' = r.gen
           /\ lines' = IF r.exc = "" THEN Append(lines, r.val) ELSE lines
           /\ last' = [op |-> "next", key |-> "", ret |-> 0, exc |-> r.exc]
    /\ UNCHANGED <<num_barcodes, pipeVars, error, clusters, heap, handed, added,
                   snap, dirty, extractVars>>

NextTable ==
    \/ GetCluster
    \/ AddPosition
    \/ RemoveCluster
    \/ ToStrings
    \/ GenNext

SpecTable == InitTable /\ [][NextTable]_vars

-----------------------------------------------------------------------------
(* Properties of the table.                                                *)

Content(s) == {Pair(s[i]) : i \in 1..Len(s)}

\* C5: a get_cluster(k) returns the cluster the previous get_cluster(k)
\* returned unless k was removed in between; the table holds one entry per
\* key; and the cluster of k holds every position added under k since the
\* entry of k was created.
SameClusterPerKey ==
    /\ [][\A k \in Keys :
            (last'.op = "get_cluster" /\ last'.key = k /\ handed[k] # 0)
               => (last'.ret = handed[k] /\ Dict_get(clusters', k) = handed[k])]_vars
    /\ [](/\ \A i, j \in 1..Len(clusters) :
                clusters[i].barcodes = clusters[j].barcodes => i = j
          /\ \A i \in 1..Len(clusters) :
                Range(added[clusters[i].cluster]) \subseteq Content(heap[clusters[i].cluster])
          /\ last.op = "get_cluster" =>
                Range(added[last.ret]) \subseteq Content(heap[last.ret]))

\* get_cluster returned, for the second time, a cluster that positions were
\* added to, while the table has a younger cluster too.
SameClusterPerKeyWitness ==
    /\ last.op = "get_cluster"
    /\ handed[last.key] = last.ret
    /\ Len(added[last.ret]) >= 2
    /\ last.ret < Len(heap)

\* The lines of the rendering taken when to_strings was called.
SnapLines == {Line(x.barcodes, x.string.val) : x \in {y \in snap : y.string.exc = ""}}

LinesAreSnapshot ==
    /\ \A i \in 1..Len(lines) : lines[i] \in SnapLines
    /\ gen.ended # "RuntimeError"
    /\ gen.ended = "StopIteration" =>
          /\ Range(lines) = SnapLines
          /\ Len(lines) = Cardinality(snap)

RemoveDeletesOnlyItsEntry ==
    [][\A k \in Keys :
         (last'.op = "remove_cluster" /\ last'.key = k) =>
            IF k \in Dict_keys(clusters)
            THEN /\ last'.exc = ""
                 /\ clusters' = SelectSeq(clusters, LAMBDA e : e.barcodes # k)
                 /\ heap' = heap
            ELSE /\ last'.exc = "KeyError"
                 /\ clusters' = clusters
                 /\ heap' = heap]_vars

\* An entry was removed and another, with a position, stayed.
RemoveWitness ==
    /\ last.op = "remove_cluster"
    /\ last.exc = ""
    /\ Len(clusters) = 1
    /\ heap[clusters[1].cluster] # <<>>

====
